---- MODULE Spec2Model ----
(***************************************************************************)
(* Model of the entity-aware retrieval tool (enhancedVectorRag) and of the *)
(* manual storage tool (storeWebResults).                                  *)
(*                                                                         *)
(* Scores are integers in thousandths (0.7 is 700), texts are described by *)
(* their length and by the entity words they contain, and the external     *)
(* collaborators (vector store, embedding provider, MCP tool registry, web *)
(* search) answer nondeterministically, failures included.                 *)
(***************************************************************************)
EXTENDS Integers, Sequences, FiniteSets, TLC

VARIABLES
    pc,               \* position of the tool call in progress
    tool,             \* history: the tool that was called
    failures,         \* history: the exceptions thrown, in order
    query,            \* context.query, a sequence of whitespace-delimited tokens
    topK,             \* context.topK
    entityDepth,      \* context.entityDepth
    useEntityEnhancement,
    storeSize,        \* None: any store content; n: the ranked store 1..n (SpecWide)
    vectorStorePresent, \* mastra.getVector("pgVector") yields a store
    initialResults,   \* let initialResults (replaced by the re-query)
    firstResults,     \* history: what the initial vector query returned
    hasSufficientLocalResults,
    webSearchUsed,
    webSearchResults,
    entities,         \* const entities of execute
    ei,               \* loop index of performEntitySearch (over topEntities)
    relatedResults,   \* relatedResults of performEntitySearch
    calls,            \* history: collaborator calls issued by the tool call
    upserts,          \* history: upserts that reached the vector store
    mcpClient,        \* mcp.ts: the module-level singleton (FALSE is null)
    userRequested,    \* context.userRequested of storeWebResults
    searchResults,    \* context.searchResults of storeWebResults
    result,           \* the value returned by the tool call
    ctx,              \* the loop state of the context assembly (SpecAssemble)
    fed,              \* number of candidates the assembly loop has visited
    pure,             \* inputs and outputs of the rerank and dedup steps (SpecPure)
    queried,          \* history: the entity queries issued (entity, topK)
    visited,          \* the candidate text the assembly loop visited last
    constructed,      \* mcp.ts: number of MCPClient instances constructed
    callers           \* mcp.ts: the callers of buildMcp and what they got (SpecMcp)

vars == << pc, tool, failures, query, topK, entityDepth, useEntityEnhancement, storeSize,
           vectorStorePresent, initialResults, firstResults,
           hasSufficientLocalResults, webSearchUsed, webSearchResults,
           entities, ei, relatedResults, calls, upserts, mcpClient, userRequested,
           searchResults, result, ctx, fed, pure, queried, visited, constructed,
           callers >>

(***************************************************************************)
(* Bounds of the model.                                                    *)
(***************************************************************************)
MaxHits == 2          \* a free vector-store answer has at most MaxHits hits
MaxEntityHits == 1    \* and at most MaxEntityHits hits for an entity's vector
MaxWebResults == 1    \* the web search returns at most MaxWebResults results
MaxCands == 17        \* candidates fed to the context assembly (SpecAssemble)
WideDocs == 17        \* documents of the large ranked store (SpecWide)
MaxMcpCalls == 2      \* calls of buildMcp by one caller (SpecMcp)
MaxPureInitial == 2   \* initial results of a pool given to Steps 4 and 5 (SpecPure)
MaxPureRelated == 2   \* entity-expansion results of such a pool

(***************************************************************************)
(* Program constants.                                                      *)
(***************************************************************************)
SufficiencyThreshold == 700   \* 0.7
EntityScoreThreshold == 700   \* 0.7
maxContextLength == 6000
maxResults == 15
MinTextLength == 50
TruncationSlack == 200
RequeryExtra == 5
MaxEntityTopK == 5
TopEntities == 3

None == -1            \* an absent (undefined) number

Min(a, b) == IF a < b THEN a ELSE b

(***************************************************************************)
(* Words.  A word is a string; its length, its lower-cased form and        *)
(* whether it matches /^[a-zA-Z]+$/ are tabulated.                         *)
(***************************************************************************)
Words == {"alpha", "Beta", "beta", "the", "with", "gpt4", "c++"}

WordLen(w) ==
    CASE w = "alpha" -> 5
      [] w \in {"Beta", "beta", "with", "gpt4"} -> 4
      [] OTHER -> 3

ToLowerCase(w) == IF w = "Beta" THEN "beta" ELSE w

IsLetters(w) == w \in {"alpha", "Beta", "beta", "the", "with"}

\* new RegExp(`\\b${entity}\\b`, 'gi') is a syntax error ("nothing to repeat")
ValidPattern(e) == e # "c++"

Queries == { <<"alpha">>, <<"the", "gpt4">>, <<"Beta", "alpha">> }

(***************************************************************************)
(* Documents of the vector store.  metadata.text is described by its       *)
(* length, the number of whole-word occurrences of each word (occ) and the *)
(* lower-cased words it contains as substrings (sub); has = FALSE is a     *)
(* document without text.  metadata.entities is absent, an array, or a     *)
(* value that is not an array.                                             *)
(***************************************************************************)
NoOcc == [w \in Words |-> 0]

NoText == [has |-> FALSE, len |-> 0, occ |-> NoOcc, sub |-> {}]

Text(n, o, s) == [has |-> TRUE, len |-> n, occ |-> o, sub |-> s]

FreeDocs == {1, 2, 3, 4}

Corpus(id) ==
    CASE id = 1 -> [text |-> Text(3000, [NoOcc EXCEPT !["alpha"] = 1], {"alpha"}),
                    entities |-> [kind |-> "absent", items |-> <<>>]]
      [] id = 2 -> [text |-> Text(3000, [NoOcc EXCEPT !["alpha"] = 2, !["beta"] = 1],
                                  {"alpha", "beta"}),
                    entities |-> [kind |-> "array", items |-> <<"beta">>]]
      [] id = 3 -> [text |-> Text(40, NoOcc, {}),
                    entities |-> [kind |-> "array", items |-> <<"c++">>]]
      [] id = 4 -> [text |-> NoText,
                    entities |-> [kind |-> "other", items |-> <<>>]]
      [] id = 5 -> [text |-> Text(60, [NoOcc EXCEPT !["alpha"] = 1], {"alpha"}),
                    entities |-> [kind |-> "array", items |-> <<"gamma">>]]
      [] OTHER  -> [text |-> Text(60, [NoOcc EXCEPT !["alpha"] = 1], {"alpha"}),
                    entities |-> [kind |-> "absent", items |-> <<>>]]

\* The similarities the store reports: documents 1 and 2 match around the
\* threshold, documents 3 and 4 are weak matches.
Scores(id) == IF id \in {1, 2} THEN {690, 700, 710} ELSE {690}

\* A hit as the vector store returns it.
Hit(i, s) == [id |-> i, score |-> s, entitySearch |-> FALSE, entity |-> "",
              entityScore |-> None, boostedScore |-> None]

IsRanked(a) ==
    /\ \A i, j \in 1..Len(a) : i < j => a[i].id # a[j].id
    /\ \A i \in 1..(Len(a) - 1) : a[i].score >= a[i + 1].score

FreeHits == UNION { { Hit(i, s) : s \in Scores(i) } : i \in FreeDocs }

FreeAnswers(k) ==
    { a \in UNION { [1..n -> FreeHits] : n \in 0..k } : IsRanked(a) }

\* The ranked store holds documents 101..100+n; a query vector ranks them from the
\* front (the run's query) or from the back (an entity), all at one score.
RankedAnswers(k, n, fromBack) ==
    LET m == Min(k, n)
    IN  { [i \in 1..m |-> Hit(100 + (IF fromBack THEN n - m + i ELSE i), s)] : s \in {700, 710} }

\* vectorStore.query({topK: k}): the answers the store can give.
Answers(k, forEntity) ==
    IF storeSize = None
    THEN FreeAnswers(Min(k, IF forEntity THEN MaxEntityHits ELSE MaxHits))
    ELSE RankedAnswers(k, storeSize, forEntity)

(***************************************************************************)
(* Pure parts of enhanced-vector-rag-tool.ts.                              *)
(***************************************************************************)
\* (result.score || 0)
ScoreOr0(c) == IF c.score = None THEN 0 ELSE c.score

\* Variants of the sufficiency check used to test the properties below.
Sufficient_AtLeast(results) ==
    /\ Len(results) > 0
    /\ \E i \in 1..Len(results) : ScoreOr0(results[i]) >= SufficiencyThreshold

Sufficient_Every(results) ==
    /\ Len(results) > 0
    /\ \A i \in 1..Len(results) : ScoreOr0(results[i]) > SufficiencyThreshold

Sufficient_MissingField(results) ==
    /\ Len(results) > 0
    /\ \E i \in 1..Len(results) : 0 > SufficiencyThreshold

\* initialResults && initialResults.length > 0 && initialResults.some(...)
SufficientLocalResults(results) ==
    /\ Len(results) > 0
    /\ \E i \in 1..Len(results) : ScoreOr0(results[i]) > SufficiencyThreshold

\* Appends x to the sequence s unless it is there already (Set.add).
SetAdd(s, x) == IF \E i \in 1..Len(s) : s[i] = x THEN s ELSE Append(s, x)

RECURSIVE SetAddAll(_, _)
SetAddAll(s, xs) ==
    IF xs = <<>> THEN s ELSE SetAddAll(SetAdd(s, Head(xs)), Tail(xs))

\* queryWords.filter(word => word.length > 3 && /^[a-zA-Z]+$/.test(word))
RECURSIVE PotentialEntities(_)
PotentialEntities(ws) ==
    IF ws = <<>> THEN <<>>
    ELSE LET w == ToLowerCase(Head(ws))
         IN  (IF WordLen(w) > 3 /\ IsLetters(w) THEN <<w>> ELSE <<>>)
             \o PotentialEntities(Tail(ws))

\* result.metadata.entities.forEach throws when entities is not an array
ExtractThrows(results) ==
    \E i \in 1..Len(results) : Corpus(results[i].id).entities.kind = "other"

RECURSIVE ResultEntities(_, _)
ResultEntities(acc, results) ==
    IF results = <<>> THEN acc
    ELSE LET e == Corpus(Head(results).id).entities
         IN  ResultEntities(IF e.kind = "array" THEN SetAddAll(acc, e.items) ELSE acc,
                            Tail(results))

extractEntities(q, results) ==
    ResultEntities(SetAddAll(<<>>, PotentialEntities(q)), results)

commonWords == {"the", "and", "or", "but", "in", "on", "at", "to", "for", "of", "with", "by"}

\* Variant of the truncation that drops the stop words before it slices.
topEntities_SkipThenSlice(es) ==
    LET kept == SelectSeq(es, LAMBDA e : ToLowerCase(e) \notin commonWords)
    IN  SubSeq(kept, 1, Min(TopEntities, Len(kept)))

\* entities.slice(0, 3)
topEntities(es) == SubSeq(es, 1, Min(TopEntities, Len(es)))

\* Math.min(5, depth * 2)
EntityTopK(depth) == Min(MaxEntityTopK, depth * 2)

\* result.score * 0.7
Dampen(score) == (score * 7) \div 10

\* Variant of the filter of performEntitySearch that ignores the initial results.
KeepEntityHit_ScoreOnly(hit, initial) == hit.score > EntityScoreThreshold

KeepEntityHit(hit, initial) ==
    /\ ~ \E i \in 1..Len(initial) : initial[i].id = hit.id
    /\ hit.score > EntityScoreThreshold

\* the entityResults.forEach of performEntitySearch, for one entity
RECURSIVE PushEntityHits(_, _, _, _)
PushEntityHits(related, hits, initial, entity) ==
    IF hits = <<>> THEN related
    ELSE LET h == Head(hits)
             r == IF KeepEntityHit(h, initial)
                  THEN Append(related, [h EXCEPT !.score = Dampen(h.score),
                                                 !.entitySearch = TRUE,
                                                 !.entity = entity])
                  ELSE related
         IN  PushEntityHits(r, Tail(hits), initial, entity)

\* text.match(regex) over all entities: whole-word occurrences
RECURSIVE EntityScore(_, _)
EntityScore(text, es) ==
    IF es = <<>> THEN 0
    ELSE (IF Head(es) \in Words THEN text.occ[ToLowerCase(Head(es))] ELSE 0)
         + EntityScore(text, Tail(es))

RerankThrows(results, es) ==
    /\ Len(es) > 0
    /\ Len(results) > 0
    /\ \E i \in 1..Len(es) : ~ ValidPattern(es[i])

Boost(c, es) ==
    LET entityScore == EntityScore(Corpus(c.id).text, es)
        boostedScore == c.score + entityScore * 100
    IN  [c EXCEPT !.score = boostedScore, !.entityScore = entityScore,
                  !.boostedScore = boostedScore]

\* Variant of the sort that puts a candidate before the candidates it ties with.
RECURSIVE InsertSorted_TiesReversed(_, _)
InsertSorted_TiesReversed(sorted, c) ==
    IF sorted = <<>> THEN <<c>>
    ELSE IF ScoreOr0(Head(sorted)) > ScoreOr0(c)
         THEN <<Head(sorted)>> \o InsertSorted_TiesReversed(Tail(sorted), c)
         ELSE <<c>> \o sorted

\* Array.prototype.sort with (a, b) => (b.score || 0) - (a.score || 0): stable
RECURSIVE InsertSorted(_, _)
InsertSorted(sorted, c) ==
    IF sorted = <<>> THEN <<c>>
    ELSE IF ScoreOr0(Head(sorted)) >= ScoreOr0(c)
         THEN <<Head(sorted)>> \o InsertSorted(Tail(sorted), c)
         ELSE <<c>> \o sorted

RECURSIVE SortByScore(_, _)
SortByScore(sorted, rest) ==
    IF rest = <<>> THEN sorted
    ELSE SortByScore(InsertSorted(sorted, Head(rest)), Tail(rest))

\* Variant of the reranking without the early return on an empty entity list.
rerankByEntityOverlap_NoEarlyReturn(results, es) ==
    SortByScore(<<>>, [i \in 1..Len(results) |-> Boost(results[i], es)])

rerankByEntityOverlap(results, es) ==
    IF Len(es) = 0 THEN results
    ELSE SortByScore(<<>>, [i \in 1..Len(results) |-> Boost(results[i], es)])

\* Variant of the seenIds filter that keeps the last copy of an id.
RECURSIVE UniqueResults_LastWins(_, _)
UniqueResults_LastWins(seen, results) ==
    IF results = <<>> THEN <<>>
    ELSE IF \E i \in 2..Len(results) : results[i].id = Head(results).id
         THEN UniqueResults_LastWins(seen, Tail(results))
         ELSE <<Head(results)>> \o UniqueResults_LastWins(seen, Tail(results))

\* Step 5: the seenIds filter
RECURSIVE UniqueResults(_, _)
UniqueResults(seen, results) ==
    IF results = <<>> THEN <<>>
    ELSE IF Head(results).id \in seen
         THEN UniqueResults(seen, Tail(results))
         ELSE <<Head(results)>> \o UniqueResults(seen \cup {Head(results).id}, Tail(results))

(***************************************************************************)
(* Step 6: context assembly.  The loop state is the length of               *)
(* relevantTexts (len), currentLength, addedCount, the fragments appended  *)
(* so far (frags) and whether the loop has left through a break (stopped). *)
(***************************************************************************)
AssembleInit ==
    [len |-> 0, currentLength |-> 0, addedCount |-> 0, frags |-> <<>>, stopped |-> FALSE]

\* Variant of the relevance filter that lets every text pass when there is no entity.
HasRelevantContent_EmptyMatchesAll(text, es) ==
    \/ es = <<>>
    \/ \E i \in 1..Len(es) : ToLowerCase(es[i]) \in text.sub

\* entities.some(entity => textLower.includes(entity.toLowerCase()))
HasRelevantContent(text, es) ==
    \E i \in 1..Len(es) : ToLowerCase(es[i]) \in text.sub

\* Variant of the loop body with the result limit off by one.
AssembleStep_LimitOffByOne(st, id, text, es) ==
    IF st.stopped THEN st
    ELSE IF st.addedCount > maxResults THEN [st EXCEPT !.stopped = TRUE]
    ELSE IF ~ text.has \/ text.len < MinTextLength \/ ~ HasRelevantContent(text, es) THEN st
    ELSE IF st.currentLength + text.len > maxContextLength
         THEN LET remainingSpace == maxContextLength - st.currentLength
              IN  IF remainingSpace > TruncationSlack
                  THEN LET cut == Min(text.len, remainingSpace - TruncationSlack)
                       IN  [st EXCEPT !.len = st.len + 2 + cut + 3,
                                      !.frags = Append(st.frags,
                                          [id |-> id, len |-> cut, truncated |-> TRUE]),
                                      !.stopped = TRUE]
                  ELSE [st EXCEPT !.stopped = TRUE]
         ELSE [st EXCEPT !.len = st.len + (IF st.len > 0 THEN 2 ELSE 0) + text.len,
                         !.currentLength = st.currentLength + text.len,
                         !.addedCount = st.addedCount + 1,
                         !.frags = Append(st.frags,
                             [id |-> id, len |-> text.len, truncated |-> FALSE])]

\* Variant of the loop body that truncates into whatever budget remains.
AssembleStep_TruncatesWithoutSlack(st, id, text, es) ==
    IF st.stopped THEN st
    ELSE IF st.addedCount >= maxResults THEN [st EXCEPT !.stopped = TRUE]
    ELSE IF ~ text.has \/ text.len < MinTextLength \/ ~ HasRelevantContent(text, es) THEN st
    ELSE IF st.currentLength + text.len > maxContextLength
         THEN LET remainingSpace == maxContextLength - st.currentLength
              IN  IF remainingSpace > 0
                  THEN LET cut == Min(text.len, remainingSpace)
                       IN  [st EXCEPT !.len = st.len + 2 + cut + 3,
                                      !.frags = Append(st.frags,
                                          [id |-> id, len |-> cut, truncated |-> TRUE]),
                                      !.stopped = TRUE]
                  ELSE [st EXCEPT !.stopped = TRUE]
         ELSE [st EXCEPT !.len = st.len + (IF st.len > 0 THEN 2 ELSE 0) + text.len,
                         !.currentLength = st.currentLength + text.len,
                         !.addedCount = st.addedCount + 1,
                         !.frags = Append(st.frags,
                             [id |-> id, len |-> text.len, truncated |-> FALSE])]

\* one iteration of `for (const result of uniqueResults)`
AssembleStep(st, id, text, es) ==
    IF st.stopped THEN st
    ELSE IF st.addedCount >= maxResults THEN [st EXCEPT !.stopped = TRUE]
    ELSE IF ~ text.has THEN st
    ELSE IF text.len < MinTextLength THEN st
    ELSE IF ~ HasRelevantContent(text, es) THEN st
    ELSE IF st.currentLength + text.len > maxContextLength
         THEN LET remainingSpace == maxContextLength - st.currentLength
              IN  IF remainingSpace > TruncationSlack
                  THEN LET cut == Min(text.len, remainingSpace - TruncationSlack)
                       IN  [st EXCEPT !.len = st.len + 2 + cut + 3,
                                      !.frags = Append(st.frags,
                                          [id |-> id, len |-> cut, truncated |-> TRUE]),
                                      !.stopped = TRUE]
                  ELSE [st EXCEPT !.stopped = TRUE]
         ELSE [st EXCEPT !.len = st.len + (IF st.len > 0 THEN 2 ELSE 0) + text.len,
                         !.currentLength = st.currentLength + text.len,
                         !.addedCount = st.addedCount + 1,
                         !.frags = Append(st.frags,
                             [id |-> id, len |-> text.len, truncated |-> FALSE])]

RECURSIVE Assemble(_, _, _)
Assemble(st, unique, es) ==
    IF unique = <<>> THEN st
    ELSE Assemble(AssembleStep(st, Head(unique).id, Corpus(Head(unique).id).text, es),
                  Tail(unique), es)

\* Step 6 (second): rerankedResults.map((result, index) => ...)
FormatSources(reranked, initialLen) ==
    [i \in 1..Len(reranked) |->
        [id |-> [tag |-> "result", index |-> i - 1],
         score |-> ScoreOr0(reranked[i]),
         error |-> "",
         metadata |-> reranked[i],
         retrievalMethod |-> IF i - 1 < initialLen THEN "vector_similarity"
                             ELSE "entity_search"]]

\* entityResults.map(result => ({nodeId, relationship, score, text}))
EntityPath(entityResults) ==
    [i \in 1..Len(entityResults) |->
        [nodeId |-> entityResults[i].id, relationship |-> "entity_search",
         score |-> entityResults[i].score]]

Undefined == [present |-> FALSE, items |-> <<>>]

Defined(x) == [present |-> TRUE, items |-> x]

NoResult ==
    [returned |-> FALSE, relevantContext |-> [kind |-> "", len |-> 0, frags |-> <<>>],
     sources |-> <<>>, entityPath |-> <<>>, entities |-> <<>>,
     webSearchUsed |-> FALSE, webSearchResults |-> Undefined,
     storedCount |-> 0, documentIds |-> <<>>]

\* the return of the `initialResults.length === 0` branch
EmptyResult(used, web) ==
    [NoResult EXCEPT !.returned = TRUE,
                     !.relevantContext = [kind |-> "No relevant information found",
                                          len |-> 0, frags |-> <<>>],
                     !.webSearchUsed = used,
                     !.webSearchResults = IF used THEN Defined(web) ELSE Undefined]

\* the return of the outer catch
ErrorResult(message) ==
    [NoResult EXCEPT !.returned = TRUE,
                     !.relevantContext = [kind |-> "Error retrieving information",
                                          len |-> 0, frags |-> <<>>],
                     !.sources = << [id |-> [tag |-> "error", index |-> None],
                                     score |-> 0, error |-> message,
                                     metadata |-> Hit(None, None),
                                     retrievalMethod |-> ""] >>]

\* Steps 3 (merge) to 6 and the final return
FinalResult(initial, entityResults, es, used, web) ==
    LET enhancedResults == IF Len(entityResults) > 0 THEN initial \o entityResults
                           ELSE initial
        entityPath == IF Len(entityResults) > 0 THEN EntityPath(entityResults) ELSE <<>>
        rerankedResults == rerankByEntityOverlap(enhancedResults, es)
        uniqueResults == UniqueResults({}, rerankedResults)
        assembled == Assemble(AssembleInit, uniqueResults, es)
    IN  [NoResult EXCEPT
            !.returned = TRUE,
            !.relevantContext = IF assembled.len > 0
                                THEN [kind |-> "texts", len |-> assembled.len,
                                      frags |-> assembled.frags]
                                ELSE [kind |-> "No text content found",
                                      len |-> 0, frags |-> <<>>],
            !.sources = FormatSources(rerankedResults, Len(initial)),
            !.entityPath = entityPath,
            !.entities = es,
            !.webSearchUsed = used,
            !.webSearchResults = IF used THEN Defined(web) ELSE Undefined]

(***************************************************************************)
(* Exceptions: the catch clause that encloses each stage.                  *)
(***************************************************************************)
WebStages == {"buildMcp", "getTools", "findTool", "search", "embedWeb", "upsert", "requery"}

EntityStages == {"embedEntity", "entityQuery"}

OuterStages == {"getVector", "embedQuery", "initialQuery", "extractEntities", "rerank"}

StoreStages == {"storeGetVector", "storeEmbed", "storeUpsert"}

\* Variants of the catch structure used to test the properties below.
CatchOf_RerankOutsideTry(stage) ==
    CASE stage \in WebStages    -> "webSearchError"
      [] stage \in EntityStages -> "entitySearch"
      [] stage \in OuterStages \ {"rerank"} -> "execute"
      [] stage \in StoreStages  -> "storeWebResults"
      [] OTHER -> "none"

CatchOf_InitialQuerySwallowed(stage) ==
    CASE stage \in WebStages \cup {"initialQuery"} -> "webSearchError"
      [] stage \in EntityStages -> "entitySearch"
      [] stage \in OuterStages  -> "execute"
      [] stage \in StoreStages  -> "storeWebResults"
      [] OTHER -> "none"

CatchOf_MissingToolIsFatal(stage) ==
    CASE stage \in WebStages \ {"findTool"} -> "webSearchError"
      [] stage \in EntityStages -> "entitySearch"
      [] stage \in OuterStages \cup {"findTool"} -> "execute"
      [] stage \in StoreStages  -> "storeWebResults"
      [] OTHER -> "none"

CatchOf_EntityFailureIsFatal(stage) ==
    CASE stage \in WebStages    -> "webSearchError"
      [] stage \in OuterStages \cup EntityStages -> "execute"
      [] stage \in StoreStages  -> "storeWebResults"
      [] OTHER -> "none"

CatchOf(stage) ==
    CASE stage \in WebStages    -> "webSearchError"   \* lines 136-138
      [] stage \in EntityStages -> "entitySearch"     \* lines 335-337
      [] stage \in OuterStages  -> "execute"          \* lines 247-263
      [] stage \in StoreStages  -> "storeWebResults"  \* store-web-results-tool.ts 78-85
      [] OTHER -> "none"

\* the return of the catch of storeWebResults, and of its early return
StoreNothing ==
    [NoResult EXCEPT !.returned = TRUE, !.storedCount = 0, !.documentIds = <<>>]

\* a throw at `stage`: where control goes, and what is returned if it returns
Raise(stage, message) ==
    LET c == CatchOf(stage)
    IN  /\ failures' = Append(failures, [stage |-> stage, message |-> message])
        /\ CASE c = "webSearchError"  -> pc' = "afterWeb" /\ result' = result
             [] c = "entitySearch"    -> pc' = "rerank" /\ result' = result
             [] c = "execute"         -> pc' = "done" /\ result' = ErrorResult(message)
             [] c = "storeWebResults" -> pc' = "done" /\ result' = StoreNothing
             [] OTHER                 -> pc' = "thrown" /\ result' = result

Goto(next) == pc' = next /\ result' = result /\ failures' = failures

Return(r) == pc' = "done" /\ result' = r /\ failures' = failures

Call(name) == calls' = Append(calls, name)

(***************************************************************************)
(* Inputs.                                                                 *)
(***************************************************************************)
WebResultLists == { [i \in 1..n |-> i] : n \in 0..MaxWebResults }

\* Object.values(tools): the ids of the tools the MCP servers expose
ToolRegistries == { <<>>, <<"read_file">>, <<"read_file", "web_search_exa">> }

\* tool.id?.includes('search') || tool.id?.includes('web')
IsSearchTool(id) == id = "web_search_exa"

\* Object.values(tools).find(...): the index of the first match, 0 if none
FindSearchTool(tools) ==
    IF \E i \in 1..Len(tools) : IsSearchTool(tools[i])
    THEN CHOOSE i \in 1..Len(tools) :
            IsSearchTool(tools[i]) /\ \A j \in 1..(i - 1) : ~ IsSearchTool(tools[j])
    ELSE 0

\* the callers of buildMcp: the agent's tool loader and two pipeline runs
McpCallers == {"loader", "run1", "run2"}

\* no caller has called buildMcp yet
NoCallers == [c \in McpCallers |-> [pc |-> "idle", client |-> 0, calls |-> 0]]

\* the rerank and dedup steps before they have run on any input
PureInit ==
    [initial |-> <<>>, related |-> <<>>, es |-> <<>>,
     reranked |-> <<>>, unique |-> <<>>, again |-> <<>>]

InitCommon ==
    /\ pc = "idle"
    /\ tool = ""
    /\ failures = <<>>
    /\ query = <<>>
    /\ topK = 0
    /\ entityDepth = 0
    /\ useEntityEnhancement = FALSE
    /\ vectorStorePresent \in BOOLEAN
    /\ initialResults = <<>>
    /\ firstResults = <<>>
    /\ hasSufficientLocalResults = FALSE
    /\ webSearchUsed = FALSE
    /\ webSearchResults = <<>>
    /\ entities = <<>>
    /\ ei = 0
    /\ relatedResults = <<>>
    /\ calls = <<>>
    /\ upserts = <<>>
    /\ mcpClient = FALSE
    /\ userRequested = FALSE
    /\ searchResults = <<>>
    /\ result = NoResult
    /\ ctx = AssembleInit
    /\ fed = 0
    /\ pure = PureInit
    /\ queried = <<>>
    /\ visited = NoText
    /\ constructed = 0
    /\ callers = NoCallers

Init == InitCommon /\ storeSize = None

InitWide == InitCommon /\ storeSize \in 0..WideDocs

(***************************************************************************)
(* enhancedVectorRagTool.execute                                           *)
(***************************************************************************)
\* line 27: the call and its context
Execute(q, k, d, u) ==
    /\ pc = "idle"
    /\ query' = q
    /\ topK' = k
    /\ entityDepth' = d
    /\ useEntityEnhancement' = u
    /\ tool' = "enhancedVectorRag"
    /\ Goto("getVector")
    /\ UNCHANGED << storeSize, vectorStorePresent, ctx, fed, pure, initialResults, firstResults,
                    hasSufficientLocalResults, webSearchUsed, webSearchResults,
                    entities, ei, relatedResults, calls, upserts, mcpClient,
                    userRequested, searchResults >>
    /\ UNCHANGED << queried, visited, constructed, callers >>

\* lines 31-34
GetVector ==
    /\ pc = "getVector"
    /\ Call("getVector")
    /\ IF vectorStorePresent THEN Goto("embedQuery")
       ELSE Raise("getVector", "Vector store not found")
    /\ UNCHANGED << tool, query, topK, entityDepth, useEntityEnhancement, storeSize,
                    vectorStorePresent, ctx, fed, pure, initialResults, firstResults,
                    hasSufficientLocalResults, webSearchUsed, webSearchResults,
                    entities, ei, relatedResults, upserts, mcpClient,
                    userRequested, searchResults >>
    /\ UNCHANGED << queried, visited, constructed, callers >>

\* lines 37-42
EmbedQuery ==
    /\ pc = "embedQuery"
    /\ Call("embedQuery")
    /\ \E ok \in BOOLEAN :
          IF ok THEN Goto("initialQuery") ELSE Raise("embedQuery", "embedMany failed")
    /\ UNCHANGED << tool, query, topK, entityDepth, useEntityEnhancement, storeSize,
                    vectorStorePresent, ctx, fed, pure, initialResults, firstResults,
                    hasSufficientLocalResults, webSearchUsed, webSearchResults,
                    entities, ei, relatedResults, upserts, mcpClient,
                    userRequested, searchResults >>
    /\ UNCHANGED << queried, visited, constructed, callers >>

\* lines 45-59: the initial query and the sufficiency check
InitialQuery ==
    /\ pc = "initialQuery"
    /\ Call("initialQuery")
    /\ \/ \E a \in Answers(topK, FALSE) :
             /\ initialResults' = a
             /\ firstResults' = a
             /\ hasSufficientLocalResults' = SufficientLocalResults(a)
             /\ IF SufficientLocalResults(a) THEN Goto("afterWeb") ELSE Goto("buildMcp")
       \/ /\ Raise("initialQuery", "query failed")
          /\ UNCHANGED << initialResults, firstResults, hasSufficientLocalResults >>
    /\ UNCHANGED << tool, query, topK, entityDepth, useEntityEnhancement, storeSize,
                    vectorStorePresent, ctx, fed, pure, webSearchUsed, webSearchResults,
                    entities, ei, relatedResults, upserts, mcpClient,
                    userRequested, searchResults >>
    /\ UNCHANGED << queried, visited, constructed, callers >>

inputs == << tool, query, topK, entityDepth, useEntityEnhancement, userRequested, searchResults >>

config == << storeSize, vectorStorePresent, ctx, fed, pure >>

\* lines 64: await buildMcp() (mcp.ts 7-37)
BuildMcp ==
    /\ pc = "buildMcp"
    /\ Call("buildMcp")
    /\ \E ok \in BOOLEAN :
          IF mcpClient \/ ok
          THEN /\ mcpClient' = TRUE
               /\ constructed' = IF mcpClient THEN constructed ELSE constructed + 1
               /\ Goto("getTools")
          ELSE /\ mcpClient' = mcpClient
               /\ constructed' = constructed
               /\ Raise("buildMcp", "MCPClient failed")
    /\ UNCHANGED << inputs, config, initialResults, firstResults,
                    hasSufficientLocalResults, webSearchUsed, webSearchResults,
                    entities, ei, relatedResults, upserts >>
    /\ UNCHANGED << queried, visited, callers >>

\* lines 65-82: the tool registry and the lookup of the search tool
GetTools ==
    /\ pc = "getTools"
    /\ Call("getTools")
    /\ \/ \E tools \in ToolRegistries :
             IF FindSearchTool(tools) # 0 THEN Goto("search")
             ELSE Raise("findTool", "Exa Search web search tool not available")
       \/ Raise("getTools", "getTools failed")
    /\ UNCHANGED << inputs, config, initialResults, firstResults,
                    hasSufficientLocalResults, webSearchUsed, webSearchResults,
                    entities, ei, relatedResults, upserts, mcpClient >>
    /\ UNCHANGED << queried, visited, constructed, callers >>

\* Variant of the search step that reports a web search even when the
\* search returned nothing.
Search_FlagsEmptyAnswer ==
    /\ pc = "search"
    /\ Call("search")
    /\ \/ \E r \in WebResultLists :
             /\ webSearchUsed' = TRUE
             /\ webSearchResults' = r
             /\ IF Len(r) > 0 THEN Goto("embedWeb") ELSE Goto("afterWeb")
       \/ /\ Raise("search", "search failed")
          /\ UNCHANGED << webSearchUsed, webSearchResults >>
    /\ UNCHANGED << inputs, config, initialResults, firstResults,
                    hasSufficientLocalResults, entities, ei, relatedResults,
                    upserts, mcpClient >>
    /\ UNCHANGED << queried, visited, constructed, callers >>

\* lines 84-91
Search ==
    /\ pc = "search"
    /\ Call("search")
    /\ \/ \E r \in WebResultLists :
             IF Len(r) > 0
             THEN /\ webSearchUsed' = TRUE
                  /\ webSearchResults' = r
                  /\ Goto("embedWeb")
             ELSE /\ UNCHANGED << webSearchUsed, webSearchResults >>
                  /\ Goto("afterWeb")
       \/ /\ Raise("search", "search failed")
          /\ UNCHANGED << webSearchUsed, webSearchResults >>
    /\ UNCHANGED << inputs, config, initialResults, firstResults,
                    hasSufficientLocalResults, entities, ei, relatedResults,
                    upserts, mcpClient >>
    /\ UNCHANGED << queried, visited, constructed, callers >>

\* lines 94-110: the documents and their embeddings
EmbedWeb ==
    /\ pc = "embedWeb"
    /\ Call("embedWeb")
    /\ \E ok \in BOOLEAN :
          IF ok THEN Goto("upsert") ELSE Raise("embedWeb", "embedMany failed")
    /\ UNCHANGED << inputs, config, initialResults, firstResults,
                    hasSufficientLocalResults, webSearchUsed, webSearchResults,
                    entities, ei, relatedResults, upserts, mcpClient >>
    /\ UNCHANGED << queried, visited, constructed, callers >>

\* the ids a document of the tools carries: `web_${Date.now()}_${index}`
WebIds(n) == [i \in 1..n |-> [tag |-> "web", index |-> i - 1]]

\* the ids under which the store writes n vectors that come without ids
GeneratedIds(n) == [i \in 1..n |-> [tag |-> "generated", index |-> i]]

\* lines 113-121
Upsert ==
    /\ pc = "upsert"
    /\ Call("upsert")
    /\ \E ok \in BOOLEAN :
          IF ok
          THEN /\ upserts' = Append(upserts, [tool |-> "enhancedVectorRag",
                                              count |-> Len(webSearchResults),
                                              ids |-> GeneratedIds(Len(webSearchResults)),
                                              userRequested |-> FALSE])
               /\ Goto("requery")
          ELSE /\ upserts' = upserts
               /\ Raise("upsert", "upsert failed")
    /\ UNCHANGED << inputs, config, initialResults, firstResults,
                    hasSufficientLocalResults, webSearchUsed, webSearchResults,
                    entities, ei, relatedResults, mcpClient >>
    /\ UNCHANGED << queried, visited, constructed, callers >>

\* lines 124-134
Requery ==
    /\ pc = "requery"
    /\ Call("requery")
    /\ \/ \E a \in Answers(topK + RequeryExtra, FALSE) :
             /\ initialResults' = IF Len(a) > 0 THEN a ELSE initialResults
             /\ Goto("afterWeb")
       \/ /\ Raise("requery", "query failed")
          /\ UNCHANGED initialResults
    /\ UNCHANGED << inputs, config, firstResults,
                    hasSufficientLocalResults, webSearchUsed, webSearchResults,
                    entities, ei, relatedResults, upserts, mcpClient >>
    /\ UNCHANGED << queried, visited, constructed, callers >>

\* lines 141-150
EmptyCheck ==
    /\ pc = "afterWeb"
    /\ IF Len(initialResults) = 0
       THEN Return(EmptyResult(webSearchUsed, webSearchResults))
       ELSE Goto("extractEntities")
    /\ UNCHANGED << inputs, config, initialResults, firstResults,
                    hasSufficientLocalResults, webSearchUsed, webSearchResults,
                    entities, ei, relatedResults, calls, upserts, mcpClient >>
    /\ UNCHANGED << queried, visited, constructed, callers >>

\* lines 153-159
ExtractEntities ==
    /\ pc = "extractEntities"
    /\ IF ExtractThrows(initialResults)
       THEN /\ Raise("extractEntities", "entities.forEach is not a function")
            /\ UNCHANGED << entities, ei >>
       ELSE LET es == extractEntities(query, initialResults)
            IN  /\ entities' = es
                /\ ei' = 1
                /\ IF useEntityEnhancement /\ Len(es) > 0
                   THEN Goto("entityLoop") ELSE Goto("rerank")
    /\ UNCHANGED << inputs, config, initialResults, firstResults,
                    hasSufficientLocalResults, webSearchUsed, webSearchResults,
                    relatedResults, calls, upserts, mcpClient >>
    /\ UNCHANGED << queried, visited, constructed, callers >>

(***************************************************************************)
(* performEntitySearch                                                     *)
(***************************************************************************)
\* lines 302-305: the loop header and the stop-word skip; line 339
EntityLoop ==
    /\ pc = "entityLoop"
    /\ IF ei > Len(topEntities(entities))
       THEN ei' = ei /\ Goto("rerank")
       ELSE IF ToLowerCase(topEntities(entities)[ei]) \in commonWords
            THEN ei' = ei + 1 /\ Goto("entityLoop")
            ELSE ei' = ei /\ Goto("embedEntity")
    /\ UNCHANGED << inputs, config, initialResults, firstResults,
                    hasSufficientLocalResults, webSearchUsed, webSearchResults,
                    entities, relatedResults, calls, upserts, mcpClient >>
    /\ UNCHANGED << queried, visited, constructed, callers >>

\* lines 307-310
EmbedEntity ==
    /\ pc = "embedEntity"
    /\ Call("embedEntity")
    /\ \E ok \in BOOLEAN :
          IF ok THEN Goto("entityQuery") ELSE Raise("embedEntity", "embedMany failed")
    /\ UNCHANGED << inputs, config, initialResults, firstResults,
                    hasSufficientLocalResults, webSearchUsed, webSearchResults,
                    entities, ei, relatedResults, upserts, mcpClient >>
    /\ UNCHANGED << queried, visited, constructed, callers >>

\* lines 312-333
EntityQuery ==
    /\ pc = "entityQuery"
    /\ Call("entityQuery")
    /\ queried' = Append(queried, [entity |-> topEntities(entities)[ei],
                                   topK |-> EntityTopK(entityDepth)])
    /\ \/ \E a \in Answers(EntityTopK(entityDepth), TRUE) :
             /\ relatedResults' = PushEntityHits(relatedResults, a, initialResults,
                                                 topEntities(entities)[ei])
             /\ ei' = ei + 1
             /\ Goto("entityLoop")
       \/ /\ Raise("entityQuery", "query failed")
          /\ UNCHANGED << relatedResults, ei >>
    /\ UNCHANGED << inputs, config, initialResults, firstResults,
                    hasSufficientLocalResults, webSearchUsed, webSearchResults,
                    entities, upserts, mcpClient >>
    /\ UNCHANGED << visited, constructed, callers >>

\* lines 167-245: merge, rerank, deduplicate, assemble, format, return
Finish ==
    /\ pc = "rerank"
    /\ IF RerankThrows(IF Len(relatedResults) > 0 THEN initialResults \o relatedResults
                       ELSE initialResults, entities)
       THEN Raise("rerank", "Invalid regular expression")
       ELSE Return(FinalResult(initialResults, relatedResults, entities,
                               webSearchUsed, webSearchResults))
    /\ UNCHANGED << inputs, config, initialResults, firstResults,
                    hasSufficientLocalResults, webSearchUsed, webSearchResults,
                    entities, ei, relatedResults, calls, upserts, mcpClient >>
    /\ UNCHANGED << queried, visited, constructed, callers >>

(***************************************************************************)
(* storeWebResultsTool.execute                                             *)
(***************************************************************************)
\* Variant of the storage tool that does not look at userRequested.
StoreWebResults_IgnoresFlag(r, u) ==
    /\ pc = "idle"
    /\ searchResults' = r
    /\ userRequested' = u
    /\ tool' = "storeWebResults"
    /\ Goto("storeGetVector")
    /\ UNCHANGED << query, topK, entityDepth, useEntityEnhancement, config,
                    initialResults, firstResults,
                    hasSufficientLocalResults, webSearchUsed, webSearchResults,
                    entities, ei, relatedResults, calls, upserts, mcpClient >>
    /\ UNCHANGED << queried, visited, constructed, callers >>

\* store-web-results-tool.ts 26-35
StoreWebResults(r, u) ==
    /\ pc = "idle"
    /\ searchResults' = r
    /\ userRequested' = u
    /\ tool' = "storeWebResults"
    /\ IF ~ u THEN Return(StoreNothing)
       ELSE Goto("storeGetVector")
    /\ UNCHANGED << query, topK, entityDepth, useEntityEnhancement, config,
                    initialResults, firstResults,
                    hasSufficientLocalResults, webSearchUsed, webSearchResults,
                    entities, ei, relatedResults, calls, upserts, mcpClient >>
    /\ UNCHANGED << queried, visited, constructed, callers >>

\* store-web-results-tool.ts 37-40
StoreGetVector ==
    /\ pc = "storeGetVector"
    /\ Call("getVector")
    /\ IF vectorStorePresent THEN Goto("storeEmbed")
       ELSE Raise("storeGetVector", "Vector store not available")
    /\ UNCHANGED << inputs, config, initialResults, firstResults,
                    hasSufficientLocalResults, webSearchUsed, webSearchResults,
                    entities, ei, relatedResults, upserts, mcpClient >>
    /\ UNCHANGED << queried, visited, constructed, callers >>

\* store-web-results-tool.ts 43-60
StoreEmbed ==
    /\ pc = "storeEmbed"
    /\ Call("embedWeb")
    /\ \E ok \in BOOLEAN :
          IF ok THEN Goto("storeUpsert") ELSE Raise("storeEmbed", "embedMany failed")
    /\ UNCHANGED << inputs, config, initialResults, firstResults,
                    hasSufficientLocalResults, webSearchUsed, webSearchResults,
                    entities, ei, relatedResults, upserts, mcpClient >>
    /\ UNCHANGED << queried, visited, constructed, callers >>

\* store-web-results-tool.ts 63-76
StoreUpsert ==
    /\ pc = "storeUpsert"
    /\ Call("upsert")
    /\ \E ok \in BOOLEAN :
          IF ok
          THEN /\ upserts' = Append(upserts, [tool |-> "storeWebResults",
                                              count |-> Len(searchResults),
                                              ids |-> GeneratedIds(Len(searchResults)),
                                              userRequested |-> userRequested])
               /\ Return([NoResult EXCEPT
                              !.returned = TRUE,
                              !.storedCount = Len(searchResults),
                              !.documentIds = WebIds(Len(searchResults))])
          ELSE /\ upserts' = upserts
               /\ Raise("storeUpsert", "upsert failed")
    /\ UNCHANGED << inputs, config, initialResults, firstResults,
                    hasSufficientLocalResults, webSearchUsed, webSearchResults,
                    entities, ei, relatedResults, mcpClient >>
    /\ UNCHANGED << queried, visited, constructed, callers >>

TopKs == IF storeSize = None THEN {1, 2} ELSE {10, 20}

Depths == IF storeSize = None THEN {2} ELSE {1, 3}

Next ==
    \/ \E q \in Queries, k \in TopKs, d \in Depths, u \in BOOLEAN : Execute(q, k, d, u)
    \/ GetVector
    \/ EmbedQuery
    \/ InitialQuery
    \/ BuildMcp
    \/ GetTools
    \/ Search
    \/ EmbedWeb
    \/ Upsert
    \/ Requery
    \/ EmptyCheck
    \/ ExtractEntities
    \/ EntityLoop
    \/ EmbedEntity
    \/ EntityQuery
    \/ Finish
    \/ \E r \in WebResultLists, u \in BOOLEAN : StoreWebResults(r, u)
    \/ StoreGetVector
    \/ StoreEmbed
    \/ StoreUpsert

Spec == Init /\ [][Next]_vars

SpecWide == InitWide /\ [][Next]_vars

(***************************************************************************)
(* The context assembly on its own: the loop of Step 6 visits a stream of  *)
(* candidates whose texts are drawn freely.                                *)
(***************************************************************************)
AssembleLens == {40, 50, 3000, 5900, 6100}

AssembleTexts ==
    {NoText} \cup { Text(n, NoOcc, s) : n \in AssembleLens, s \in {{}, {"alpha"}} }

AssembleEntities == { <<>>, <<"alpha">>, <<"Beta", "alpha">> }

InitAssemble ==
    /\ pc = "assemble"
    /\ tool = ""
    /\ failures = <<>>
    /\ query = <<>>
    /\ topK = 0
    /\ entityDepth = 0
    /\ useEntityEnhancement = FALSE
    /\ storeSize = None
    /\ vectorStorePresent = TRUE
    /\ initialResults = <<>>
    /\ firstResults = <<>>
    /\ hasSufficientLocalResults = FALSE
    /\ webSearchUsed = FALSE
    /\ webSearchResults = <<>>
    /\ entities \in AssembleEntities
    /\ ei = 0
    /\ relatedResults = <<>>
    /\ calls = <<>>
    /\ upserts = <<>>
    /\ mcpClient = FALSE
    /\ userRequested = FALSE
    /\ searchResults = <<>>
    /\ result = NoResult
    /\ ctx = AssembleInit
    /\ fed = 0
    /\ pure = PureInit
    /\ queried = <<>>
    /\ visited = NoText
    /\ constructed = 0
    /\ callers = NoCallers

\* lines 196-223: one iteration, on the next candidate of uniqueResults
Visit(text) ==
    /\ pc = "assemble"
    /\ fed < MaxCands
    /\ fed' = fed + 1
    /\ visited' = text
    /\ ctx' = AssembleStep(ctx, 0, text, entities)
    /\ UNCHANGED << pc, tool, failures, query, topK, entityDepth, useEntityEnhancement, storeSize,
                    vectorStorePresent, initialResults, firstResults,
                    hasSufficientLocalResults, webSearchUsed, webSearchResults,
                    entities, ei, relatedResults, calls, upserts, mcpClient,
                    userRequested, searchResults, result, pure >>
    /\ UNCHANGED << queried, constructed, callers >>

NextAssemble == \E text \in AssembleTexts : Visit(text)

SpecAssemble == InitAssemble /\ [][NextAssemble]_vars

(***************************************************************************)
(* The rerank and dedup steps on their own: Steps 4 and 5 run on a merged  *)
(* pool drawn freely among the pools Step 3 can build (at least one        *)
(* initial result, distinct ids in the store's order, then the dampened    *)
(* hits of the entity queries, entity by entity, none with an initial id). *)
(***************************************************************************)
PureDocs == {1, 2, 3}

PureScores == {690, 710, 850}

PureRawScores == {710, 900}

PureEntities == { <<>>, <<"alpha">>, <<"beta", "alpha">> }

PureInitials ==
    { a \in UNION { [1..n -> { Hit(i, s) : i \in PureDocs, s \in PureScores }]
                    : n \in 1..MaxPureInitial } : IsRanked(a) }

\* the answers to the entity queries of a run, one per entity of es
RECURSIVE PureRelated(_, _, _)
PureRelated(initial, es, room) ==
    IF es = <<>> THEN { <<>> }
    ELSE UNION { { PushEntityHits(<<>>, a, initial, Head(es)) \o rest
                   : rest \in PureRelated(initial, Tail(es), room - Len(a)) }
                 : a \in { b \in UNION { [1..n -> { Hit(i, s) : i \in PureDocs,
                                                                s \in PureRawScores }]
                                         : n \in 0..Min(room, MaxEntityHits) }
                           : IsRanked(b) } }

InitPure ==
    /\ pc = "pure"
    /\ tool = ""
    /\ failures = <<>>
    /\ query = <<>>
    /\ topK = 0
    /\ entityDepth = 0
    /\ useEntityEnhancement = FALSE
    /\ storeSize = None
    /\ vectorStorePresent = TRUE
    /\ initialResults = <<>>
    /\ firstResults = <<>>
    /\ hasSufficientLocalResults = FALSE
    /\ webSearchUsed = FALSE
    /\ webSearchResults = <<>>
    /\ entities = <<>>
    /\ ei = 0
    /\ relatedResults = <<>>
    /\ calls = <<>>
    /\ upserts = <<>>
    /\ mcpClient = FALSE
    /\ userRequested = FALSE
    /\ searchResults = <<>>
    /\ result = NoResult
    /\ ctx = AssembleInit
    /\ fed = 0
    /\ queried = <<>>
    /\ visited = NoText
    /\ constructed = 0
    /\ callers = NoCallers
    /\ \E a \in PureInitials, e \in PureEntities :
          \E r \in PureRelated(a, topEntities(e), MaxPureRelated) :
             pure = [PureInit EXCEPT !.initial = a, !.related = r, !.es = e]

\* line 167: enhancedResults
Enhanced(p) == IF Len(p.related) > 0 THEN p.initial \o p.related ELSE p.initial

PureFrame ==
    /\ UNCHANGED << tool, failures, query, topK, entityDepth, useEntityEnhancement,
                    storeSize, vectorStorePresent, initialResults, firstResults,
                    hasSufficientLocalResults, webSearchUsed, webSearchResults,
                    entities, ei, relatedResults, calls, upserts, mcpClient,
                    userRequested, searchResults, result, ctx, fed >>
    /\ UNCHANGED << queried, visited, constructed, callers >>

\* line 179: Step 4
RerankStep ==
    /\ pc = "pure"
    /\ pure' = [pure EXCEPT !.reranked = rerankByEntityOverlap(Enhanced(pure), pure.es)]
    /\ pc' = "reranked"
    /\ PureFrame

\* lines 182-187: Step 5
DedupStep ==
    /\ pc = "reranked"
    /\ pure' = [pure EXCEPT !.unique = UniqueResults({}, pure.reranked)]
    /\ pc' = "unique"
    /\ PureFrame

\* rerankByEntityOverlap applied to its own output
RerankAgain ==
    /\ pc = "reranked"
    /\ pure' = [pure EXCEPT !.again = rerankByEntityOverlap(pure.reranked, pure.es)]
    /\ pc' = "again"
    /\ PureFrame

NextPure == RerankStep \/ DedupStep \/ RerankAgain

SpecPure == InitPure /\ [][NextPure]_vars

(***************************************************************************)
(* Steps 2 to 6 on their own: entity extraction and entity expansion start *)
(* from an initial answer that was sufficient (no web search), with the    *)
(* query and the initial results drawn freely.                             *)
(***************************************************************************)
EntityQueries ==
    { <<"alpha">>, <<"the", "gpt4">>, <<"Beta", "alpha">>, <<"with", "Beta", "alpha">> }

EntityInitials ==
    { << Hit(1, 710) >>, << Hit(5, 710) >>, << Hit(2, 710), Hit(5, 690) >>,
      << Hit(1, 710), Hit(101, 690) >> }

EntityStoreSizes == {2, 6}

EntityDepths == {1, 2, 3}

InitEntities ==
    /\ pc = "extractEntities"
    /\ tool = "enhancedVectorRag"
    /\ failures = <<>>
    /\ query \in EntityQueries
    /\ topK = 2
    /\ entityDepth \in EntityDepths
    /\ useEntityEnhancement \in BOOLEAN
    /\ storeSize \in EntityStoreSizes
    /\ vectorStorePresent = TRUE
    /\ initialResults \in EntityInitials
    /\ firstResults = initialResults
    /\ hasSufficientLocalResults = TRUE
    /\ webSearchUsed = FALSE
    /\ webSearchResults = <<>>
    /\ entities = <<>>
    /\ ei = 0
    /\ relatedResults = <<>>
    /\ calls = << "getVector", "embedQuery", "initialQuery" >>
    /\ upserts = <<>>
    /\ mcpClient = FALSE
    /\ userRequested = FALSE
    /\ searchResults = <<>>
    /\ result = NoResult
    /\ ctx = AssembleInit
    /\ fed = 0
    /\ pure = PureInit
    /\ queried = <<>>
    /\ visited = NoText
    /\ constructed = 0
    /\ callers = NoCallers

NextEntities == ExtractEntities \/ EntityLoop \/ EmbedEntity \/ EntityQuery \/ Finish

SpecEntities == InitEntities /\ [][NextEntities]_vars

(***************************************************************************)
(* mcp.ts on its own: the tool loader of the agent and the pipeline runs   *)
(* call buildMcp concurrently.  The body of buildMcp holds no await, so a  *)
(* call runs it in one step; the caller then waits for the promise and     *)
(* resumes with the client (or with the exception of the constructor).     *)
(***************************************************************************)
McpFrame ==
    UNCHANGED << pc, tool, failures, query, topK, entityDepth, useEntityEnhancement,
                 storeSize, vectorStorePresent, initialResults, firstResults,
                 hasSufficientLocalResults, webSearchUsed, webSearchResults,
                 entities, ei, relatedResults, calls, upserts,
                 userRequested, searchResults, result, ctx, fed, pure, queried,
                 visited >>

\* Variant of buildMcp that waits between the check and the construction.
BuildMcpCall_AwaitsBeforeConstruct(c, ok) ==
    /\ McpFrame
    /\ \/ /\ callers[c].pc = "idle"
          /\ callers[c].calls < MaxMcpCalls
          /\ UNCHANGED << mcpClient, constructed >>
          /\ callers' = [callers EXCEPT ![c] =
                 IF mcpClient
                 THEN [pc |-> "awaiting", client |-> constructed, calls |-> @.calls + 1]
                 ELSE [pc |-> "checked", client |-> 0, calls |-> @.calls + 1]]
       \/ /\ callers[c].pc = "checked"
          /\ IF ok
             THEN /\ mcpClient' = TRUE
                  /\ constructed' = constructed + 1
                  /\ callers' = [callers EXCEPT ![c].pc = "awaiting",
                                                ![c].client = constructed + 1]
             ELSE /\ UNCHANGED << mcpClient, constructed >>
                  /\ callers' = [callers EXCEPT ![c].pc = "rejected"]

\* mcp.ts 7-37: one call of buildMcp; ok = the constructor does not throw
BuildMcpCall(c, ok) ==
    /\ callers[c].pc = "idle"
    /\ callers[c].calls < MaxMcpCalls
    /\ IF mcpClient
       THEN /\ UNCHANGED << mcpClient, constructed >>
            /\ callers' = [callers EXCEPT ![c] =
                   [pc |-> "awaiting", client |-> constructed, calls |-> @.calls + 1]]
       ELSE IF ok
            THEN /\ mcpClient' = TRUE
                 /\ constructed' = constructed + 1
                 /\ callers' = [callers EXCEPT ![c] =
                        [pc |-> "awaiting", client |-> constructed + 1,
                         calls |-> @.calls + 1]]
            ELSE /\ UNCHANGED << mcpClient, constructed >>
                 /\ callers' = [callers EXCEPT ![c] =
                        [pc |-> "rejected", client |-> 0, calls |-> @.calls + 1]]
    /\ McpFrame

\* the caller's `await buildMcp()` resumes
McpResume(c) ==
    /\ callers[c].pc \in {"awaiting", "rejected"}
    /\ callers' = [callers EXCEPT ![c].pc =
                      IF @ = "awaiting" THEN "returned" ELSE "failed"]
    /\ UNCHANGED << mcpClient, constructed >>
    /\ McpFrame

\* the caller comes back: the next agent step or the next pipeline run
McpCallAgain(c) ==
    /\ callers[c].pc \in {"returned", "failed"}
    /\ callers[c].calls < MaxMcpCalls
    /\ callers' = [callers EXCEPT ![c].pc = "idle"]
    /\ UNCHANGED << mcpClient, constructed >>
    /\ McpFrame

NextMcp ==
    \/ \E c \in McpCallers, ok \in BOOLEAN : BuildMcpCall(c, ok)
    \/ \E c \in McpCallers : McpResume(c)
    \/ \E c \in McpCallers : McpCallAgain(c)

SpecMcp == Init /\ [][NextMcp]_vars

(***************************************************************************)
(* Properties.                                                             *)
(***************************************************************************)
Ran == tool = "enhancedVectorRag"

Returned == Ran /\ pc = "done"

Failed(stages) == \E i \in 1..Len(failures) : failures[i].stage \in stages

Called(names) == \E i \in 1..Len(calls) : calls[i] \in names

\* the claim's own reading of "insufficient": empty, or no score above 0.7
Insufficient(results) ==
    \/ Len(results) = 0
    \/ \A i \in 1..Len(results) :
          (IF results[i].score = None THEN 0 ELSE results[i].score) <= 700

\* the steps of execute that wait for a collaborator or branch on its answer
CollaboratorStep ==
    \/ GetVector \/ EmbedQuery \/ InitialQuery \/ BuildMcp \/ GetTools \/ Search
    \/ EmbedWeb \/ Upsert \/ Requery \/ EmptyCheck \/ ExtractEntities
    \/ EntityLoop \/ EmbedEntity \/ EntityQuery

\* C1: whatever the collaborators do, a run of execute ends by returning a
\* result object: no exception leaves it, a run that has not returned can
\* always take its next step (at "rerank" the one step left is the pure
\* computation of Finish), and what it returns is a result object.
C1_AlwaysReturns ==
    /\ pc # "thrown"
    /\ (Ran /\ pc \notin {"done", "rerank"}) => ENABLED CollaboratorStep
    /\ Returned =>
          /\ result.returned
          /\ result.webSearchUsed \in BOOLEAN
          /\ result.relevantContext.kind # ""

C1_Witness ==
    /\ Returned
    /\ Failed({"upsert"})
    /\ Failed({"rerank"})
    /\ result.returned

\* C2: when the vector store is absent or the initial embedding or the
\* initial query fails, the result is the error response (one source with
\* id "error", score 0 and the error message; no entityPath, no entities,
\* webSearchUsed false) and the run issues no web search, upsert or
\* entity-expansion query.
C2_InitialFailureIsErrorResponse ==
    (Ran /\ Failed({"getVector", "embedQuery", "initialQuery"})) =>
        /\ ~ Called({"buildMcp", "getTools", "search", "embedWeb", "upsert",
                     "requery", "embedEntity", "entityQuery"})
        /\ upserts = <<>>
        /\ pc = "done"
        /\ Len(result.sources) = 1
        /\ result.sources[1].id = [tag |-> "error", index |-> None]
        /\ result.sources[1].score = 0
        /\ result.sources[1].error = failures[1].message
        /\ result.entityPath = <<>>
        /\ result.entities = <<>>
        /\ result.webSearchUsed = FALSE

C2_Witness ==
    /\ Returned
    /\ Len(failures) = 1
    /\ failures[1].stage = "initialQuery"
    /\ result.sources[1].id.tag = "error"

\* C3: the assembled relevantContext is never longer than maxContextLength
\* (6000), separators and ellipsis included.
C3_ContextWithinMaxLength ==
    result.relevantContext.len <= maxContextLength

\* C4: the context is made of at most maxResults (15) fragments, a
\* truncated last fragment counting as one; only accepted candidates count
\* toward the limit, skipped ones do not.
C4_AtMostMaxResultsFragments ==
    /\ Len(ctx.frags) <= maxResults
    /\ ctx.addedCount = Cardinality({ i \in 1..Len(ctx.frags) : ~ ctx.frags[i].truncated })
    /\ ctx.addedCount <= fed

C4_Witness ==
    /\ Len(ctx.frags) = maxResults
    /\ fed = MaxCands
    /\ ctx.stopped

\* C5: the sources list of a returned result never has more than
\* MaxResults (15) entries.
C5_SourcesWithinMaxResults ==
    Returned => Len(result.sources) <= maxResults

\* C6: an upsert of web results reaches the store only in a run of execute
\* whose initial result set was insufficient, or in a call of
\* storeWebResults with userRequested = true.
C6_UpsertOnlyWhenInsufficientOrRequested ==
    \A i \in 1..Len(upserts) :
        \/ /\ upserts[i].tool = "enhancedVectorRag"
           /\ Ran
           /\ Insufficient(firstResults)
        \/ /\ upserts[i].tool = "storeWebResults"
           /\ tool = "storeWebResults"
           /\ userRequested

C6_Witness ==
    /\ Returned
    /\ Len(upserts) = 1
    /\ upserts[1].tool = "enhancedVectorRag"
    /\ Len(firstResults) = 2

\* C7: web results are stored only when the user explicitly requested it:
\* no upsert reaches the store in a run without a storage request.
C7_StoredOnlyOnUserRequest ==
    upserts # <<>> => (tool = "storeWebResults" /\ userRequested)

\* C8: the web-search collaborator is invoked only after the initial query
\* returned and only if its result is insufficient; when some initial
\* candidate scores above 0.7 the run issues no web search and no upsert and
\* returns webSearchUsed = false without webSearchResults.
C8_WebSearchOnlyAfterInsufficientQuery ==
    Ran =>
        /\ \A i \in 1..Len(calls) :
              calls[i] \in {"buildMcp", "getTools", "search", "embedWeb", "upsert"} =>
                 /\ \E j \in 1..(i - 1) : calls[j] = "initialQuery"
                 /\ ~ Failed({"initialQuery"})
                 /\ Insufficient(firstResults)
        /\ (\E k \in 1..Len(firstResults) : firstResults[k].score > 700) =>
              /\ ~ Called({"buildMcp", "getTools", "search", "embedWeb", "upsert", "requery"})
              /\ upserts = <<>>
              /\ pc = "done" => /\ result.webSearchUsed = FALSE
                                /\ result.webSearchResults.present = FALSE

C8_Witness ==
    /\ Returned
    /\ firstResults = << Hit(1, 710), Hit(2, 690) >>
    /\ Len(result.sources) = 2
    /\ result.webSearchUsed = FALSE

\* C9: the sufficiency check is true exactly when the initial candidate
\* list is non-empty and some candidate scores strictly above 0.7, a
\* missing score counting as 0: false for [], true for [0.71], false for
\* [0.5, 0.69] and false for [0.7].
C9_SufficiencyGate ==
    /\ hasSufficientLocalResults = ~ Insufficient(firstResults)
    /\ SufficientLocalResults(<<>>) = FALSE
    /\ SufficientLocalResults(<< Hit(1, 710) >>) = TRUE
    /\ SufficientLocalResults(<< Hit(1, 500), Hit(2, 690) >>) = FALSE
    /\ SufficientLocalResults(<< Hit(1, 700) >>) = FALSE
    /\ SufficientLocalResults(<< Hit(1, None) >>) = FALSE
    /\ SufficientLocalResults(<< Hit(1, None), Hit(2, 710) >>) = TRUE

C9_Witness ==
    /\ pc = "buildMcp"
    /\ firstResults = << Hit(1, 700) >>
    /\ hasSufficientLocalResults = FALSE

UpsertBeforeRequery ==
    /\ upserts # <<>>
    /\ \E i, j \in 1..Len(calls) : i < j /\ calls[i] = "upsert" /\ calls[j] = "requery"

\* C10: when the store returns only hits below 0.7 and the web search
\* returns at least one result, the run ends with webSearchUsed = true and
\* the web results in webSearchResults, and the store received the upsert
\* before the re-query; so every result reporting webSearchUsed = true comes
\* from a run in which an upsert preceded the re-query.
C10_WebSearchUsedMeansStoredThenRequeried ==
    Returned =>
        /\ ( /\ Len(firstResults) > 0
             /\ \A i \in 1..Len(firstResults) : firstResults[i].score < 700
             /\ Len(webSearchResults) > 0 ) =>
                /\ result.webSearchUsed
                /\ result.webSearchResults = Defined(webSearchResults)
                /\ UpsertBeforeRequery
        /\ result.webSearchUsed => UpsertBeforeRequery

InitialQueryAnswered == Called({"initialQuery"}) /\ ~ Failed({"initialQuery"})

IsEmptyResponse(r) ==
    /\ r.relevantContext.kind = "No relevant information found"
    /\ r.sources = <<>>
    /\ r.entities = <<>>
    /\ r.webSearchUsed = FALSE

IsErrorResponse(r) ==
    /\ Len(r.sources) = 1
    /\ r.sources[1].id.tag = "error"

\* the web search found no tool, or the tool it found returned no result
NoWebResults ==
    \/ Failed({"findTool"})
    \/ Called({"search"}) /\ ~ Failed({"search"}) /\ webSearchResults = <<>>

FirstOccurrences(list) ==
    { i \in 1..Len(list) : \A j \in 1..(i - 1) : list[j].id # list[i].id }

\* the k-th smallest element of a set of positions
NthPosition(positions, k) ==
    CHOOSE i \in positions : Cardinality({ j \in positions : j <= i }) = k

\* C13: the output of the deduplication step has no two candidates with
\* the same id, holds for each id of the input the first candidate with
\* that id, with all its field values, and keeps the kept candidates in
\* their input order; dedupe([{a, 1}, {a, 2}]) is [{a, 1}].
C13_DedupKeepsFirstOccurrences ==
    /\ UniqueResults({}, << Hit(1, 710), Hit(1, 690) >>) = << Hit(1, 710) >>
    /\ pc = "unique" =>
          LET firsts == FirstOccurrences(pure.reranked)
          IN  /\ \A i, j \in 1..Len(pure.unique) :
                    i # j => pure.unique[i].id # pure.unique[j].id
              /\ Len(pure.unique) = Cardinality(firsts)
              /\ \A k \in 1..Len(pure.unique) :
                    pure.unique[k] = pure.reranked[NthPosition(firsts, k)]

C13_Witness ==
    /\ pc = "unique"
    /\ Len(pure.reranked) = 3
    /\ Len(pure.unique) = 2
    /\ pure.reranked[2].id = pure.reranked[3].id
    /\ pure.reranked[2].score # pure.reranked[3].score

\* the copy of id that comes first in the merged pool
EarliestCopy(pool, id) ==
    pool[CHOOSE i \in FirstOccurrences(pool) : pool[i].id = id]

\* C14: of several candidates of the merged pool (initial results, then
\* entity-expansion results) with the same id, the one that reaches the
\* final unique list is the earliest in merge order (with the score the
\* reranking gives it); a candidate of the initial results is never replaced
\* by a dampened entity-search copy.
C14_EarliestMergedCopySurvives ==
    pc = "unique" =>
        \A k \in 1..Len(pure.unique) :
            LET first == EarliestCopy(Enhanced(pure), pure.unique[k].id)
            IN  pure.unique[k] = IF Len(pure.es) = 0 THEN first ELSE Boost(first, pure.es)

\* C15: the sources of a result that is not the error response never hold
\* two entries for the same candidate id (metadata.id), also when the
\* expansion queries of two entities return the same document.
C15_SourcesHaveDistinctIds ==
    (Returned /\ ~ IsErrorResponse(result)) =>
        \A i, j \in 1..Len(result.sources) :
            i # j => result.sources[i].metadata.id # result.sources[j].metadata.id

Ids(list) == { list[i].id : i \in 1..Len(list) }

\* C16: performEntitySearch never returns a candidate whose id is among
\* the initial candidates it was given (the re-queried list when the
\* re-query replaced it), so no nodeId of entityPath is the id of an initial
\* result.
C16_ExpansionExcludesInitialIds ==
    Ran =>
        /\ \A i \in 1..Len(relatedResults) : relatedResults[i].id \notin Ids(initialResults)
        /\ pc = "done" =>
              \A i \in 1..Len(result.entityPath) :
                  result.entityPath[i].nodeId \notin Ids(initialResults)

C16_Witness ==
    /\ Returned
    /\ Called({"requery"})
    /\ initialResults # firstResults
    /\ Len(result.entityPath) = 1
    /\ result.entityPath[1].nodeId \in Ids(firstResults)

\* C17: every candidate found only by entity expansion had a raw similarity
\* strictly above 0.7, and its score in the returned sources is that raw
\* similarity times 0.7, with entitySearch = true and the triggering entity
\* in its metadata.
C17_EntityOnlyScoreIsDampenedRaw ==
    (Returned /\ ~ IsErrorResponse(result)) =>
        \A i \in 1..Len(result.sources) :
            LET m == result.sources[i].metadata
            IN  m.entitySearch =>
                   /\ \E raw \in Scores(m.id) :
                         /\ raw > EntityScoreThreshold
                         /\ result.sources[i].score = Dampen(raw)
                   /\ \E k \in 1..Len(topEntities(entities)) :
                         m.entity = topEntities(entities)[k]

C19_RerankWithoutEntitiesIsIdentity ==
    (pc \in {"reranked", "unique", "again"} /\ pure.es = <<>>) =>
        /\ pure.reranked = Enhanced(pure)
        /\ \A i \in 1..Len(pure.reranked) :
              /\ pure.reranked[i].entityScore = None
              /\ pure.reranked[i].boostedScore = None
        /\ pc = "again" => pure.again = pure.reranked

C19_Witness ==
    /\ pc = "again"
    /\ pure.es = <<>>
    /\ Len(pure.again) = 2
    /\ pure.again[1].score = pure.again[2].score

\* the order of a candidate list: the candidates by id and triggering entity
Order(list) == [i \in 1..Len(list) |-> << list[i].id, list[i].entity >>]

\* C20: reranking is idempotent on order: reranking the output of a
\* reranking with the same entities leaves the candidates in the order of
\* the first reranking.
C20_RerankIdempotentOnOrder ==
    pc = "again" => Order(pure.again) = Order(pure.reranked)

StoreRan == tool = "storeWebResults"

\* C21: storeWebResults with userRequested = false is a no-op: it returns
\* storedCount = 0 and no documentIds, and neither looks up the vector
\* store, nor calls the embedding provider, nor issues an upsert.
C21_StoreWithoutRequestIsNoOp ==
    (StoreRan /\ ~ userRequested) =>
        /\ pc = "done"
        /\ result.returned
        /\ result.storedCount = 0
        /\ result.documentIds = <<>>
        /\ calls = <<>>
        /\ upserts = <<>>
        /\ failures = <<>>

C21_Witness ==
    /\ StoreRan
    /\ ~ userRequested
    /\ Len(searchResults) = MaxWebResults
    /\ vectorStorePresent
    /\ pc = "done"
    /\ result.storedCount = 0

\* C22: when storeWebResults succeeds with userRequested = true, every web
\* result becomes one stored document: storedCount is the number of
\* documents the upsert wrote, documentIds are exactly the ids under which
\* the store wrote them, pairwise distinct; on any failure storedCount is 0
\* and documentIds is empty.
C22_DocumentIdsAreStoredIds ==
    (StoreRan /\ userRequested /\ pc = "done") =>
        IF failures = <<>>
        THEN /\ Len(upserts) = 1
             /\ result.storedCount = Len(searchResults)
             /\ result.storedCount = upserts[1].count
             /\ result.documentIds = upserts[1].ids
             /\ \A i, j \in 1..Len(result.documentIds) :
                   i # j => result.documentIds[i] # result.documentIds[j]
        ELSE /\ upserts = <<>>
             /\ result.storedCount = 0
             /\ result.documentIds = <<>>

\* the whole-word occurrences of the entities in a text, summed
Occurrences(text, es) ==
    LET sum[n \in 0..Len(es)] ==
            IF n = 0 THEN 0
            ELSE sum[n - 1] + (IF es[n] \in Words THEN text.occ[ToLowerCase(es[n])] ELSE 0)
    IN  sum[Len(es)]

\* the position in pool of the candidate c (by id and triggering entity)
PositionIn(pool, c) ==
    CHOOSE p \in 1..Len(pool) : pool[p].id = c.id /\ pool[p].entity = c.entity

FirstThree(es) == SubSeq(es, 1, IF Len(es) < 3 THEN Len(es) ELSE 3)

StopWords == {"the", "and", "or", "but", "in", "on", "at", "to", "for", "of", "with", "by"}

\* the entities among the first three that are not stop words, in order
Expandable(es) == SelectSeq(FirstThree(es), LAMBDA e : ToLowerCase(e) \notin StopWords)

\* C24: a run issues at most 3 embed+query round trips for entity
\* expansion: only the first 3 entities are considered (a skipped stop word
\* is not replaced by a fourth entity), every stop word among them is
\* skipped, and every expansion query asks for min(5, 2 * entityDepth)
\* results.
C24_AtMostThreeExpansionQueries ==
    Ran =>
        /\ Len(queried) <= 3
        /\ Cardinality({ i \in 1..Len(calls) : calls[i] = "embedEntity" }) <= 3
        /\ Len(queried) <= Len(Expandable(entities))
        /\ \A i \in 1..Len(queried) :
              /\ queried[i].entity = Expandable(entities)[i]
              /\ queried[i].topK = (IF 2 * entityDepth < 5 THEN 2 * entityDepth ELSE 5)
        /\ (pc = "done" /\ useEntityEnhancement /\ ~ Failed(EntityStages)
              /\ ~ Failed(OuterStages)) =>
              Len(queried) = Len(Expandable(entities))

C24_Witness ==
    /\ Returned
    /\ entities = << "with", "beta", "alpha", "gamma" >>
    /\ Len(queried) = 2
    /\ queried[1].entity = "beta"
    /\ queried[2].entity = "alpha"
    /\ queried[1].topK = 5
    /\ ~ Failed(EntityStages)

Count(name) == Cardinality({ i \in 1..Len(calls) : calls[i] = name })

\* C25: a failure while expanding one entity skips only that entity: the
\* other entities among the first three are still embedded and queried, and
\* their qualifying hits reach the result.
C25_EntityFailuresAreIndependent ==
    (Returned /\ useEntityEnhancement /\ ~ IsErrorResponse(result)
       /\ Len(initialResults) > 0) =>
        /\ Count("embedEntity") = Len(Expandable(entities))
        /\ Count("entityQuery") + Cardinality({ i \in 1..Len(failures) :
                                       failures[i].stage = "embedEntity" })
              = Len(Expandable(entities))

\* a candidate text passes the filters of the assembly
Passes(text, es) ==
    /\ text.has
    /\ text.len >= 50
    /\ \E i \in 1..Len(es) : ToLowerCase(es[i]) \in text.sub

\* the sum of the lengths of the fragments appended in full
FullLength(frags) ==
    LET sum[n \in 0..Len(frags)] ==
            IF n = 0 THEN 0
            ELSE sum[n - 1] + (IF frags[n].truncated THEN 0 ELSE frags[n].len)
    IN  sum[Len(frags)]

\* one visit of the walk, against the reference assembly
VisitMatchesReference ==
    LET text == visited'
        used == FullLength(ctx.frags)
        budget == 6000 - used
    IN  IF ctx.stopped \/ ~ Passes(text, entities) THEN ctx'.frags = ctx.frags /\ ctx'.len = ctx.len
        ELSE IF Len(ctx.frags) >= 15 THEN ctx'.frags = ctx.frags /\ ctx'.stopped
        ELSE IF text.len <= budget
             THEN /\ ctx'.frags = Append(ctx.frags, [id |-> 0, len |-> text.len,
                                                     truncated |-> FALSE])
                  /\ ctx'.len = ctx.len + (IF ctx.frags = <<>> THEN 0 ELSE 2) + text.len
                  /\ ~ ctx'.stopped
             ELSE /\ ctx'.stopped
                  /\ IF budget > 200
                     THEN /\ ctx'.frags = Append(ctx.frags, [id |-> 0, len |-> budget - 200,
                                                             truncated |-> TRUE])
                          /\ ctx'.len = ctx.len + 2 + (budget - 200) + 3
                     ELSE ctx'.frags = ctx.frags /\ ctx'.len = ctx.len

\* C26: the context is the reference assembly over the candidates in
\* their final order: a text is appended in full only if it exists, has at
\* least 50 characters and contains an entity as a case-insensitive
\* substring; the first passing text that would push the accumulated text
\* length over maxContextLength ends the walk, leaving a truncated fragment
\* and an ellipsis only when more than 200 characters of budget remain, and
\* no later candidate contributes.
C26_ContextIsReferenceAssembly == [][VisitMatchesReference]_vars

C26_Witness ==
    /\ pc = "assemble"
    /\ ctx.stopped
    /\ Len(ctx.frags) = 2
    /\ ~ ctx.frags[1].truncated
    /\ ctx.frags[2].truncated
    /\ ctx.frags[2].len = 2800
    /\ fed > 3

\* the entities Step 2 has produced are in `entities`
Extracted == Ran /\ pc \in {"entityLoop", "embedEntity", "entityQuery", "rerank", "done"}
                 /\ ~ Failed({"getVector", "embedQuery", "initialQuery", "extractEntities"})
                 /\ Len(initialResults) > 0

\* C27: every entity derived from the query text is a lower-cased token of
\* more than 3 characters, made of ASCII letters only, and is not a stop
\* word; no common word is among the entities the result returns (the
\* entities used for reranking and for the relevance filter).
C27_NoStopWordAmongEntities ==
    /\ Extracted =>
          \A i \in 1..Len(query) :
              LET w == ToLowerCase(query[i])
              IN  (\E k \in 1..Len(entities) : entities[k] = w) =>
                     /\ WordLen(w) > 3
                     /\ IsLetters(w)
                     /\ w \notin StopWords
    /\ (Returned /\ ~ IsErrorResponse(result)) =>
          \A k \in 1..Len(result.entities) : ToLowerCase(result.entities[k]) \notin StopWords

\* C28: whatever the order in which the tool loader and the pipeline runs
\* call buildMcp, calls in flight at the same time included, at most one
\* MCPClient is ever constructed and every call that returns yields that
\* one instance.
C28_SingleMcpClient ==
    /\ constructed <= 1
    /\ mcpClient = (constructed = 1)
    /\ \A c \in McpCallers :
          callers[c].pc \in {"awaiting", "returned"} => callers[c].client = 1
    /\ \A c, d \in McpCallers :
          (callers[c].pc \in {"awaiting", "returned"}
             /\ callers[d].pc \in {"awaiting", "returned"}) =>
                callers[c].client = callers[d].client

C28_Witness ==
    /\ constructed = 1
    /\ callers["loader"].pc = "awaiting"
    /\ callers["run1"].pc = "awaiting"
    /\ callers["run2"].pc = "returned"
    /\ callers["run2"].calls = 2

\* C29: a run whose result reports webSearchUsed = false has sent no upsert
\* to the vector store, the runs that end in the error response after entity
\* extraction or reranking failed included.
C29_NoUpsertWithoutWebSearchUsed ==
    (Returned /\ ~ result.webSearchUsed) => upserts = <<>>

\* C30: when the entity set is empty (the query has no token of more than
\* three letters and no candidate declares entities) and the initial results
\* are not empty, the run sends no entity-expansion query, its sources list
\* every initial candidate in the store's order with its score unchanged, and
\* relevantContext is the fallback "No text content found for query".
C30_EmptyEntitySetGivesFallback ==
    (/\ Returned
     /\ ~ IsErrorResponse(result)
     /\ entities = <<>>
     /\ Len(initialResults) > 0) =>
        /\ ~ Called({"embedEntity", "entityQuery"})
        /\ queried = <<>>
        /\ result.entityPath = <<>>
        /\ Len(result.sources) = Len(initialResults)
        /\ \A i \in 1..Len(initialResults) :
              /\ result.sources[i].metadata = initialResults[i]
              /\ result.sources[i].score = initialResults[i].score
              /\ result.sources[i].retrievalMethod = "vector_similarity"
        /\ result.relevantContext.kind = "No text content found"

C30_Witness ==
    /\ Returned
    /\ query = <<"the", "gpt4">>
    /\ useEntityEnhancement
    /\ entities = <<>>
    /\ initialResults = << Hit(1, 710), Hit(101, 690) >>
    /\ Corpus(1).text.has
    /\ Corpus(1).text.len >= MinTextLength
    /\ Len(result.sources) = 2
    /\ result.sources[2].metadata.id = 101
    /\ result.relevantContext.kind = "No text content found"

====
